---- MODULE Spec2Model ----
(***************************************************************************)
(* wst: a command-line WebSocket diagnostic client (src/main.rs).          *)
(*                                                                         *)
(* One invocation runs `main`, which installs the TLS provider and then    *)
(* runs exactly one of the two flows, `ping` or `compression`.  Each flow  *)
(* is a sequential async function; the model has one action per await     *)
(* point of the flow, and the straight-line code that follows an await is  *)
(* part of the action of that await.                                       *)
(*                                                                         *)
(* The WebSocket transport (`ws`, a Sink + Stream of messages) is the      *)
(* environment.  The flows see it only through the values `ws.send` and    *)
(* `ws.next` return, so the model draws these values from the result types *)
(* the code matches on: a send is Ok or Err; a read is Some(Ok(frame)),    *)
(* Some(Err), or None (end of the incoming stream).                        *)
(***************************************************************************)
EXTENDS Integers, Sequences, FiniteSets, TLC

VARIABLES
    cmd,        \* main.rs:18-21,39  the parsed Command: "ping" or "compression"
    count,      \* main.rs:29        args.count of the ping flow
    pc,         \* position of the control flow: "main", "connect", "tick",
                \*                   "send", "read", "close", "done"
    ws,         \* main.rs:56,119    the Connection owned by the flow:
                \*                   "none", "open", "dropped"
    response,   \* main.rs:119,125   the values of Sec-WebSocket-Extensions in
                \*                   the handshake response, in header order
    i,          \* main.rs:62        the for-loop variable (0 before the loop)
    latencies,  \* main.rs:59,71     the Vec<Duration>, in nanoseconds
    output,     \* println! calls    lines printed to stdout, in order
    sent,       \* main.rs:65,86,122 frames ws.send accepted, in order
    exit,       \* main.rs:38-53     "running", "ok" (exit code 0), "err" (non-zero)
    failedAt,   \* the call whose error ended the run: "none", "provider",
                \*                   "connect", "ping", "read", "close"
    peerClosed, \* history: a close frame arrived or the stream ended
    lastRead,   \* history: kind of the value the latest ws.next returned
    pongOf,     \* history: for each record, the ping its pong replied to
                \*                   (0 for an unsolicited pong)
    recsAtSend, \* history: for each ping sent, latencies.len() at the send
    released    \* history: times the Connection went out of scope

vars == <<cmd, count, pc, ws, response, i, latencies, output, sent, exit,
          failedAt, peerClosed, lastRead, pongOf, recsAtSend, released>>

----------------------------------------------------------------------------
(* Bounds of the model *)

MaxCount == 3
MaxLatency == 2
LongCount == 257

(* Program constants *)

PayloadMod == 256
NanosPerMicro == 1000

(* Elapsed times the clock can report, in nanoseconds: sub-microsecond     *)
(* values included.                                                        *)
Latencies == {(k * NanosPerMicro) \div 2 : k \in 0..MaxLatency}

(* Values a server can put in Sec-WebSocket-Extensions. *)
ExtValues == {"permessage-deflate", "permessage-deflate; server_no_context_takeover"}

(* The header as it occurs in the response: absent, once, or repeated. *)
Responses == {<<>>} \cup {<<v>> : v \in ExtValues}
                    \cup {<<v, w>> : v \in ExtValues, w \in ExtValues}

----------------------------------------------------------------------------
(* Pure helpers *)

(* latencies.iter().sum(): the sum of the elements, computed by halves so  *)
(* that the evaluation depth stays logarithmic in the length               *)
RECURSIVE SumSeq(_)
SumSeq(s) ==
    IF s = <<>> THEN 0
    ELSE IF Len(s) = 1 THEN s[1]
    ELSE LET h == Len(s) \div 2
         IN  SumSeq(SubSeq(s, 1, h)) + SumSeq(SubSeq(s, h + 1, Len(s)))

Range(s) == {s[k] : k \in 1..Len(s)}

(* latencies.iter().copied().min().unwrap_or_default() *)
MinOf(s) == IF s = <<>> THEN 0
            ELSE CHOOSE m \in Range(s) : \A x \in Range(s) : m <= x

(* latencies.iter().copied().max().unwrap_or_default() *)
MaxOf(s) == IF s = <<>> THEN 0
            ELSE CHOOSE m \in Range(s) : \A x \in Range(s) : m >= x

AvgWrong(s) == SumSeq(s) \div (Len(s) + 1)

(* sum / latencies.len() as u32, Duration division truncating to nanoseconds *)
Avg(s) == SumSeq(s) \div Len(s)

(* Duration::as_micros: whole microseconds, truncated *)
AsMicros(d) == d \div NanosPerMicro

(* format!("{:?}", header_value): the value between double quotes *)
DebugFmt(v) == <<"\"", v, "\"">>

(* One printed line: its kind, its numeric arguments, its text argument. *)
Line(kind, args, text) == [kind |-> kind, args |-> args, text |-> text]

ConnectedLine == Line("connected", <<>>, <<>>)
ClosedLine == Line("closed", <<>>, <<>>)
ProbeLineZeroBased(idx, d) == Line("probe", <<idx - 1, count, AsMicros(d)>>, <<>>)
ProbeLine(idx, d) == Line("probe", <<idx, count, AsMicros(d)>>, <<>>)
StatsHeaderLine == Line("stats_header", <<>>, <<>>)
StatsLine(s) ==
    Line("stats", <<Len(s), AsMicros(MinOf(s)), AsMicros(Avg(s)), AsMicros(MaxOf(s))>>, <<>>)

StatisticsAlways(s) ==
    <<StatsHeaderLine,
      Line("stats", <<Len(s), AsMicros(MinOf(s)), 0, AsMicros(MaxOf(s))>>, <<>>)>>

(* if !latencies.is_empty() { ... the two lines of the statistics block } *)
Statistics(s) == IF s # <<>> THEN <<StatsHeaderLine, StatsLine(s)>> ELSE <<>>

ExtensionsLineLastValue(r) ==
    IF r # <<>> THEN Line("extensions", <<>>, DebugFmt(r[Len(r)]))
    ELSE Line("no_extensions", <<>>, <<>>)

(* if let Some(extensions) = response.headers().get(..) { .. } else { .. }: *)
(* HeaderMap::get yields the first value of the header                      *)
ExtensionsLine(r) ==
    IF r # <<>> THEN Line("extensions", <<>>, DebugFmt(r[1]))
    ELSE Line("no_extensions", <<>>, <<>>)

PingFrameMod255(idx) == [t |-> "ping", payload |-> <<idx % (PayloadMod - 1)>>]

(* Message::Ping(vec![(i % 256) as u8].into()) *)
PingFrame(idx) == [t |-> "ping", payload |-> <<idx % PayloadMod>>]
CloseFrame == [t |-> "close", payload |-> <<>>]

(* for i in 1..=args.count: another iteration, or on to the close *)
LoopHeadInclusive(idx) == IF idx <= count THEN "tick" ELSE "close"
LoopHead(idx) == IF idx < count THEN "tick" ELSE "close"

----------------------------------------------------------------------------
Init ==
    /\ cmd \in {"ping", "compression"}
    /\ count \in 0..MaxCount
    /\ pc = "main"
    /\ ws = "none"
    /\ response = <<>>
    /\ i = 0
    /\ latencies = <<>>
    /\ output = <<>>
    /\ sent = <<>>
    /\ exit = "running"
    /\ failedAt = "none"
    /\ peerClosed = FALSE
    /\ lastRead = "none_yet"
    /\ pongOf = <<>>
    /\ recsAtSend = <<>>
    /\ released = 0

(* A `?` or `return Err` / `bail!`: the flow returns the error, its locals *)
(* (the Connection among them) go out of scope, main exits non-zero.       *)
Fail(stage) ==
    /\ pc' = "done"
    /\ exit' = "err"
    /\ failedAt' = stage
    /\ ws' = IF ws = "open" THEN "dropped" ELSE ws
    /\ released' = IF ws = "open" THEN released + 1 ELSE released

(* main: install_default() failed *)
ProviderFail ==
    /\ pc = "main"
    /\ Fail("provider")
    /\ UNCHANGED <<cmd, count, response, i, latencies, output, sent,
                   peerClosed, lastRead, pongOf, recsAtSend>>

(* main: provider installed, dispatch to the flow *)
ProviderOk ==
    /\ pc = "main"
    /\ pc' = "connect"
    /\ UNCHANGED <<cmd, count, ws, response, i, latencies, output, sent, exit,
                   failedAt, peerClosed, lastRead, pongOf, recsAtSend, released>>

(* connect_async(..).await? failed *)
ConnectFail ==
    /\ pc = "connect"
    /\ Fail("connect")
    /\ UNCHANGED <<cmd, count, response, i, latencies, output, sent,
                   peerClosed, lastRead, pongOf, recsAtSend>>

(* connect_async(..).await? succeeded; println!("Connected to ..") *)
ConnectOk ==
    /\ pc = "connect"
    /\ ws' = "open"
    /\ \E r \in Responses : response' = r
    /\ output' = Append(output, ConnectedLine)
    /\ pc' = IF cmd = "ping" THEN LoopHead(0) ELSE "close"
    /\ UNCHANGED <<cmd, count, i, latencies, sent, exit, failedAt,
                   peerClosed, lastRead, pongOf, recsAtSend, released>>

(* interval.tick().await; let sent_time = Instant::now().  The time the   *)
(* tick takes is not modelled; the elapsed time is drawn at the pong.     *)
Tick ==
    /\ pc = "tick"
    /\ i' = i + 1
    /\ pc' = "send"
    /\ UNCHANGED <<cmd, count, ws, response, latencies, output, sent, exit,
                   failedAt, peerClosed, lastRead, pongOf, recsAtSend, released>>

(* ws.send(Message::Ping(..)).await returned Ok *)
SendPingOk ==
    /\ pc = "send"
    /\ sent' = Append(sent, PingFrame(i))
    /\ recsAtSend' = Append(recsAtSend, Len(latencies))
    /\ pc' = "read"
    /\ UNCHANGED <<cmd, count, ws, response, i, latencies, output, exit,
                   failedAt, peerClosed, lastRead, pongOf, released>>

(* ws.send(Message::Ping(..)).await? returned Err *)
SendPingErr ==
    /\ pc = "send"
    /\ Fail("ping")
    /\ UNCHANGED <<cmd, count, response, i, latencies, output, sent,
                   peerClosed, lastRead, pongOf, recsAtSend>>

RecvPongNoBreak(re, d) ==
    /\ latencies' = Append(latencies, d)
    /\ pongOf' = Append(pongOf, re)
    /\ output' = Append(output, ProbeLine(i, d))
    /\ lastRead' = "pong"
    /\ UNCHANGED <<cmd, count, pc, ws, response, i, sent, exit, failedAt,
                   peerClosed, recsAtSend, released>>

(* Ok(Message::Pong(_)): push the elapsed time, print the probe line, break *)
RecvPong(re, d) ==
    /\ latencies' = Append(latencies, d)
    /\ pongOf' = Append(pongOf, re)
    /\ output' = Append(output, ProbeLine(i, d))
    /\ lastRead' = "pong"
    /\ pc' = LoopHead(i)
    /\ UNCHANGED <<cmd, count, ws, response, i, sent, exit, failedAt,
                   peerClosed, recsAtSend, released>>

RecvOtherEndsWait(t) ==
    /\ lastRead' = t
    /\ peerClosed' = (peerClosed \/ t = "close")
    /\ pc' = LoopHead(i)
    /\ UNCHANGED <<cmd, count, ws, response, i, latencies, output, sent,
                   exit, failedAt, pongOf, recsAtSend, released>>

(* Ok(_) => continue: any other frame; a close frame is the peer's last *)
RecvOther(t) ==
    /\ lastRead' = t
    /\ peerClosed' = (peerClosed \/ t = "close")
    /\ UNCHANGED <<cmd, count, pc, ws, response, i, latencies, output, sent,
                   exit, failedAt, pongOf, recsAtSend, released>>

RecvErrSkip ==
    /\ lastRead' = "err"
    /\ pc' = LoopHead(i)
    /\ UNCHANGED <<cmd, count, ws, response, i, latencies, output, sent, exit,
                   failedAt, peerClosed, pongOf, recsAtSend, released>>

(* Err(e) => return Err(e.into()) *)
RecvErr ==
    /\ lastRead' = "err"
    /\ Fail("read")
    /\ UNCHANGED <<cmd, count, response, i, latencies, output, sent,
                   peerClosed, pongOf, recsAtSend>>

(* ws.next() returned None: `while let Some(..)` ends, the for loop goes on *)
RecvNone ==
    /\ lastRead' = "end"
    /\ peerClosed' = TRUE
    /\ pc' = LoopHead(i)
    /\ UNCHANGED <<cmd, count, ws, response, i, latencies, output, sent, exit,
                   failedAt, pongOf, recsAtSend, released>>

(* ws.next().await while awaiting the pong of ping i.  A pong is a reply   *)
(* to one of the pings sent so far (re >= 1) or unsolicited (re = 0).      *)
(* Once the peer has closed, no further frame arrives.                     *)
WsNext ==
    /\ pc = "read"
    /\ \/ /\ ~peerClosed
          /\ \E re \in 0..Len(recsAtSend), d \in Latencies : RecvPong(re, d)
       \/ /\ ~peerClosed
          /\ \E t \in {"text", "binary", "ping", "close"} : RecvOther(t)
       \/ RecvErr
       \/ RecvNone

SendCloseOkTwice ==
    /\ sent' = sent \o <<CloseFrame, CloseFrame>>
    /\ output' = output \o <<ClosedLine>>
                   \o (IF cmd = "ping" THEN Statistics(latencies)
                       ELSE <<ExtensionsLine(response)>>)
    /\ pc' = "done"
    /\ exit' = "ok"
    /\ ws' = "dropped"
    /\ released' = released + 1
    /\ UNCHANGED <<cmd, count, response, i, latencies, failedAt,
                   peerClosed, lastRead, pongOf, recsAtSend>>

(* ws.send(Message::Close(None)).await returned Ok; the rest of the flow:  *)
(* "Connection closed", then the statistics block (ping) or the extensions *)
(* line (compression), then Ok(()).                                        *)
SendCloseOk ==
    /\ sent' = Append(sent, CloseFrame)
    /\ output' = output \o <<ClosedLine>>
                   \o (IF cmd = "ping" THEN Statistics(latencies)
                       ELSE <<ExtensionsLine(response)>>)
    /\ pc' = "done"
    /\ exit' = "ok"
    /\ ws' = "dropped"
    /\ released' = released + 1
    /\ UNCHANGED <<cmd, count, response, i, latencies, failedAt,
                   peerClosed, lastRead, pongOf, recsAtSend>>

(* ws.send(Message::Close(None)).await? returned Err *)
SendCloseErr ==
    /\ Fail("close")
    /\ UNCHANGED <<cmd, count, response, i, latencies, output, sent,
                   peerClosed, lastRead, pongOf, recsAtSend>>

SendClose ==
    /\ pc = "close"
    /\ (SendCloseOk \/ SendCloseErr)

Next ==
    \/ ProviderFail
    \/ ProviderOk
    \/ ConnectFail
    \/ ConnectOk
    \/ Tick
    \/ SendPingOk
    \/ SendPingErr
    \/ WsNext
    \/ SendClose

Spec == Init /\ [][Next]_vars

(* The runs in which every await completes: the timer fires, a send       *)
(* returns, a read returns (with whatever the peer and the transport give) *)
(* and the runtime starts the flow.                                        *)
FairSpec ==
    /\ Spec
    /\ WF_vars(ProviderOk \/ ProviderFail)
    /\ WF_vars(ConnectOk \/ ConnectFail)
    /\ WF_vars(Tick)
    /\ WF_vars(SendPingOk \/ SendPingErr)
    /\ WF_vars(WsNext)
    /\ WF_vars(SendClose)

----------------------------------------------------------------------------
(* Long runs of the ping flow, for the sequence indices above 255.  To     *)
(* keep the runs enumerable the peer of a long run answers the ping it was *)
(* sent (elapsed time 0), sends other frames, or the read fails.           *)

InitLong ==
    /\ cmd = "ping"
    /\ count \in (LongCount - 1)..LongCount
    /\ pc = "main"
    /\ ws = "none"
    /\ response = <<>>
    /\ i = 0
    /\ latencies = <<>>
    /\ output = <<>>
    /\ sent = <<>>
    /\ exit = "running"
    /\ failedAt = "none"
    /\ peerClosed = FALSE
    /\ lastRead = "none_yet"
    /\ pongOf = <<>>
    /\ recsAtSend = <<>>
    /\ released = 0

WsNextEcho ==
    /\ pc = "read"
    /\ \/ /\ ~peerClosed
          /\ RecvPong(i, 0)
       \/ /\ ~peerClosed
          /\ \E t \in {"text", "binary", "ping", "close"} : RecvOther(t)
       \/ RecvErr

NextLong ==
    \/ ProviderFail
    \/ ProviderOk
    \/ ConnectFail
    \/ ConnectOk
    \/ Tick
    \/ SendPingOk
    \/ SendPingErr
    \/ WsNextEcho
    \/ SendClose

SpecLong == InitLong /\ [][NextLong]_vars

----------------------------------------------------------------------------
(* Observations used by the properties *)

ProbeLines == SelectSeq(output, LAMBDA l : l.kind = "probe")
StatsLines == SelectSeq(output, LAMBDA l : l.kind = "stats")
StatsHeaders == SelectSeq(output, LAMBDA l : l.kind = "stats_header")
NoStatistics == StatsLines = <<>> /\ StatsHeaders = <<>>
PingsSent == Len(SelectSeq(sent, LAMBDA f : f.t = "ping"))
CloseFramesSent == Len(SelectSeq(sent, LAMBDA f : f.t = "close"))
Ended == pc = "done"

----------------------------------------------------------------------------
(* C1: in the ping flow, a read that returns a transport error while the   *)
(* pong of ping i is awaited fails the flow at once: the run is in the     *)
(* failed (non-zero exit) state, the pings sent are exactly those of       *)
(* indices 1..i at most, no statistics block is printed although records   *)
(* may have been collected, and from then on nothing more is sent or       *)
(* printed.                                                                *)
C1_ReadErrorAborts ==
    /\ [](cmd = "ping" /\ lastRead = "err"
            => /\ Ended /\ exit = "err" /\ failedAt = "read"
               /\ PingsSent <= i
               /\ NoStatistics)
    /\ [][lastRead = "err" => UNCHANGED <<sent, output, exit, latencies>>]_vars

C1_Witness ==
    /\ cmd = "ping" /\ lastRead = "err" /\ Ended
    /\ i = 2 /\ count = 3 /\ Len(latencies) = 1

----------------------------------------------------------------------------
(* The peer's side of a run, read off the history variables *)

(* The peer answered ping 1 with a pong and sent no other pong; the reads  *)
(* then met the end of the connection: a close frame or the end of the     *)
(* stream (peerClosed), or a read error.                                   *)
ClosedBeforeSecondPong ==
    /\ pongOf = <<1>>
    /\ (peerClosed \/ lastRead = "err")

(* The peer answered every ping 1..count with one pong, the reply to that  *)
(* ping, and no send, read or connect failed.                              *)
EchoPongServer ==
    /\ pongOf = [k \in 1..count |-> k]
    /\ failedAt = "none"

----------------------------------------------------------------------------
(* C2: for count >= 2, a ping run against a server that answers ping 1     *)
(* with a pong and closes before a second pong (seen as a read error, a    *)
(* close frame or the end of the stream) ends with exactly 1 probe line, a *)
(* non-zero exit code and no statistics block.                             *)
C2_CloseBeforeSecondPong ==
    (cmd = "ping" /\ count >= 2 /\ Ended /\ ClosedBeforeSecondPong)
        => /\ Len(ProbeLines) = 1
           /\ exit = "err"
           /\ NoStatistics

(* C3: at most one ping is outstanding: a ping is sent only when every     *)
(* ping sent before it has completed its round trip with a received pong,  *)
(* and once a round trip has not completed no later ping is sent.          *)
C3_NoPipelining ==
    [][PingsSent' > PingsSent => Len(latencies) = PingsSent]_vars

(* C4: whenever the statistics block is printed, the number of records it  *)
(* summarizes equals the configured count.                                 *)
C4_StatisticsOnlyOfCompleteRun ==
    StatsLines # <<>> => StatsLines[1].args[1] = count

(* C5: the k-th record was produced for the ping of sequence index k, and  *)
(* when the ping of index k is sent the sequence holds exactly k-1 records.*)
C5_RecordsFollowSequenceIndex ==
    /\ \A k \in 1..Len(ProbeLines) : ProbeLines[k].args[1] = k
    /\ \A k \in 1..Len(recsAtSend) : recsAtSend[k] = k - 1

(* C6: a record for ping i is created only on a pong the peer sent in      *)
(* response to ping i: never on an unsolicited pong, never on a pong       *)
(* answering an earlier ping.                                              *)
C6_RecordOnlyOnCorrespondingPong ==
    \A k \in 1..Len(ProbeLines) : pongOf[k] = ProbeLines[k].args[1]

(* C7 as claimed: in every run in which the connection was established,    *)
(* exactly one close frame has been sent when the flow ends, also when it  *)
(* ends because a send or a read failed.                                   *)
C7_CloseFrameOnEveryExit ==
    (Ended /\ ws = "dropped") => CloseFramesSent = 1

(* C7, amended: an established Connection is released exactly once, when   *)
(* the flow returns; a close frame is sent exactly once in the runs that   *)
(* end successfully and not at all in the runs that end because a send or  *)
(* a read failed; no frame follows a close frame.                          *)
C7_ReleasedOnceCloseFrameOnSuccess ==
    /\ released = (IF ws = "dropped" THEN 1 ELSE 0)
    /\ (ws = "dropped") = (Ended /\ failedAt \notin {"provider", "connect"})
    /\ CloseFramesSent = (IF exit = "ok" THEN 1 ELSE 0)
    /\ \A k \in 1..Len(sent) : sent[k].t = "close" => k = Len(sent)

C7_Witness ==
    /\ Ended /\ ws = "dropped" /\ released = 1
    /\ failedAt = "read" /\ CloseFramesSent = 0 /\ PingsSent = 2

(* C8: for count n >= 1, a ping run against a server that answers every   *)
(* ping with one pong and never fails prints the connected line, n probe   *)
(* lines of indices 1..n in order, the connection-closed line and the      *)
(* statistics block whose count is n, and exits with code 0.               *)
C8_EchoPongRun ==
    (cmd = "ping" /\ count >= 1 /\ Ended /\ EchoPongServer)
        => /\ exit = "ok"
           /\ Len(output) = count + 4
           /\ output[1] = ConnectedLine
           /\ \A k \in 1..count :
                 /\ output[k + 1].kind = "probe"
                 /\ output[k + 1].args[1] = k
                 /\ output[k + 1].args[2] = count
           /\ output[count + 2] = ClosedLine
           /\ output[count + 3] = StatsHeaderLine
           /\ output[count + 4].kind = "stats"
           /\ output[count + 4].args[1] = count

C8_Witness ==
    /\ cmd = "ping" /\ count = 3 /\ Ended /\ EchoPongServer
    /\ Len(ProbeLines) = 3 /\ Len(StatsLines) = 1

(* C9: for every non-empty sequence of recorded latencies, the summary     *)
(* has min <= avg <= max with avg the truncated quotient of sum by length; *)
(* the statistics line printed reports the length of the sequence as its   *)
(* count and the same three values in whole microseconds, in that order.   *)
C9_MinAvgMax ==
    /\ latencies # <<>> =>
          /\ MinOf(latencies) <= Avg(latencies)
          /\ Avg(latencies) <= MaxOf(latencies)
          /\ Avg(latencies) * Len(latencies) <= SumSeq(latencies)
          /\ SumSeq(latencies) < (Avg(latencies) + 1) * Len(latencies)
          /\ \A k \in 1..Len(latencies) :
                MinOf(latencies) <= latencies[k] /\ latencies[k] <= MaxOf(latencies)
    /\ StatsLines # <<>> =>
          /\ latencies # <<>>
          /\ StatsLines[1].args = <<Len(latencies), AsMicros(MinOf(latencies)),
                                    AsMicros(Avg(latencies)), AsMicros(MaxOf(latencies))>>
          /\ StatsLines[1].args[2] <= StatsLines[1].args[3]
          /\ StatsLines[1].args[3] <= StatsLines[1].args[4]

C9_Witness ==
    /\ StatsLines # <<>> /\ Len(latencies) = 3
    /\ MinOf(latencies) < Avg(latencies) /\ Avg(latencies) < MaxOf(latencies)
    /\ SumSeq(latencies) % Len(latencies) # 0

(* C10: while the record sequence is empty no statistics block is printed. *)
(* A run with count = 0 never sends a ping and never prints statistics; it *)
(* goes from the connect straight to the send of the close frame, and when *)
(* no transport error occurs the close frame is sent and the exit code is  *)
(* 0.  A run whose first ping send fails prints no probe line and no       *)
(* statistics.                                                             *)
C10_NoStatisticsWithoutRecords ==
    cmd = "ping" =>
        /\ latencies = <<>> => NoStatistics
        /\ count = 0 =>
              /\ PingsSent = 0 /\ i = 0 /\ NoStatistics
              /\ pc \in {"main", "connect", "close", "done"}
              /\ (Ended /\ failedAt = "none") =>
                    (exit = "ok" /\ CloseFramesSent = 1
                        /\ output = <<ConnectedLine, ClosedLine>>)
        /\ (failedAt = "ping" /\ i = 1) =>
              (ProbeLines = <<>> /\ NoStatistics /\ exit = "err")

C10_Witness ==
    /\ cmd = "ping" /\ count = 0 /\ Ended /\ exit = "ok"
    /\ sent = <<CloseFrame>> /\ latencies = <<>> /\ NoStatistics

(* C11: every ping frame sent carries a 1-byte payload equal to its        *)
(* 1-based sequence index modulo 256, indices above 255 included: the ping *)
(* of index 256 carries 0, the ping of index 257 carries 1.                *)
C11_PayloadIsIndexMod256 ==
    \A k \in 1..Len(sent) :
        sent[k].t = "ping" =>
            /\ Len(sent[k].payload) = 1
            /\ sent[k].payload[1] \in 0..255
            /\ \E q \in 0..(k \div 256) : k = 256 * q + sent[k].payload[1]
            /\ k = 256 => sent[k].payload[1] = 0
            /\ k = 257 => sent[k].payload[1] = 1

C11_Witness ==
    /\ PingsSent >= 257
    /\ sent[255].payload = <<255>>
    /\ sent[256].payload = <<0>>
    /\ sent[257].payload = <<1>>

(* The lines of the output that report the negotiation *)
ExtensionReports ==
    SelectSeq(output, LAMBDA l : l.kind \in {"extensions", "no_extensions"})

(* C12: the compression flow reports what the handshake response contains: *)
(* a run that ends successfully prints, after the connected and the closed *)
(* line, one report that depends on the response header only: the (first)  *)
(* value of Sec-WebSocket-Extensions between double quotes when the header *)
(* is present, the no-extensions line when it is absent.  No other run     *)
(* prints a report, so a response without the header is never reported as  *)
(* extensions.                                                             *)
C12_ReportIsResponseHeader ==
    cmd = "compression" =>
        /\ (Ended /\ exit = "ok") =>
              /\ Len(output) = 3
              /\ output[1].kind = "connected" /\ output[2].kind = "closed"
              /\ ExtensionReports = <<output[3]>>
              /\ response = <<>> =>
                    output[3] = [kind |-> "no_extensions", args |-> <<>>, text |-> <<>>]
              /\ response # <<>> =>
                    output[3] = [kind |-> "extensions", args |-> <<>>,
                                 text |-> <<"\"", Head(response), "\"">>]
        /\ ~(Ended /\ exit = "ok") => ExtensionReports = <<>>
        /\ sent \in {<<>>, <<CloseFrame>>}

C12_Witness ==
    /\ cmd = "compression" /\ Ended /\ exit = "ok"
    /\ Len(response) = 2 /\ response[1] # response[2]
    /\ output[3].kind = "extensions"
    /\ output[3].text[2] = "permessage-deflate"

(* The kinds of frame other than a pong that a read can return *)
NonPongKinds == {"text", "binary", "ping", "close"}

(* C13: while the pong of ping i is awaited, a read that returns a frame   *)
(* other than a pong (text, binary, ping, close) is discarded: no record   *)
(* is created, no line is printed, nothing is sent, the sequence index and *)
(* the record sequence are unchanged, the run has not ended, and the flow  *)
(* is still reading for the same ping.                                     *)
C13_NonPongDiscarded ==
    [][(pc = "read" /\ lastRead' \in NonPongKinds)
          => /\ pc' = "read"
             /\ UNCHANGED <<i, latencies, output, sent, pongOf, recsAtSend,
                            exit, failedAt, ws, released>>]_vars

C13_Witness ==
    /\ pc = "read" /\ lastRead \in NonPongKinds
    /\ i = 2 /\ Len(latencies) = 1 /\ PingsSent = 2 /\ exit = "running"

(* C14 as claimed: under fairness of the timer and of the transport the    *)
(* flow eventually reaches its end state, having sent at most count pings, *)
(* whatever the peer sends.                                                *)
C14_AlwaysTerminates ==
    /\ [](PingsSent <= count)
    /\ <>Ended

(* C14, amended: under the same fairness at most count pings are sent, and *)
(* the flow eventually reaches its end state unless from some point on it  *)
(* awaits one pong for ever while the open peer keeps sending text, binary *)
(* or ping frames: it has no timeout of its own.                           *)
C14_TerminatesUnlessFedNonPongs ==
    /\ [](PingsSent <= count)
    /\ \/ <>Ended
       \/ <>[](/\ pc = "read" /\ ~peerClosed
               /\ lastRead \in {"text", "binary", "ping"})

C14_Witness ==
    /\ cmd = "ping" /\ Ended /\ count = 3 /\ PingsSent = 3
    /\ lastRead = "pong" /\ Len(latencies) = 3

(* C15: in every reachable state the number of records is at most the      *)
(* number of pings sent, the number of pings sent is at most count, the    *)
(* number of probe lines printed equals the number of records, and each    *)
(* ping sent has produced at most one record: the probe lines carry        *)
(* strictly increasing indices of pings that were sent.                    *)
C15_RecordsPingsCount ==
    /\ Len(latencies) <= PingsSent
    /\ PingsSent <= count
    /\ PingsSent <= i /\ i <= count
    /\ Len(ProbeLines) = Len(latencies)
    /\ \A k \in 1..Len(ProbeLines) :
          /\ ProbeLines[k].args[1] \in 1..PingsSent
          /\ k > 1 => ProbeLines[k - 1].args[1] < ProbeLines[k].args[1]

C15_Witness ==
    /\ cmd = "ping" /\ count = 3 /\ PingsSent = 3
    /\ Len(latencies) = 2 /\ Len(ProbeLines) = 2
    /\ ProbeLines[1].args[1] = 1 /\ ProbeLines[2].args[1] = 2
    /\ pc = "read" /\ lastRead = "text"

====
